---- MODULE Spec2Model ----
(***************************************************************************)
(* Model of package sftpgo: the SFTP client facade (sftpClient), its        *)
(* reconnect supervisor goroutine started by NewClient, and the path       *)
(* arithmetic of PutFile / PutString.                                      *)
(*                                                                         *)
(* Strings (error messages, remote paths) are sequences of one-character   *)
(* strings, so that strings.Contains, strings.Split, filepath.Clean,       *)
(* filepath.Dir and filepath.Join are computed on their characters.        *)
(* Channels `reconnect` and `ReconnectStatus` are unbuffered: a send and   *)
(* its receive are one joint step, enabled only when both sides are at     *)
(* the channel operation.                                                  *)
(***************************************************************************)
EXTENDS Naturals, Integers, Sequences, FiniteSets, TLC

VARIABLES
    clientLog,   \* every value written to ftpConn.Client, oldest first
    seen,        \* per caller: index in clientLog of the newest write it has observed
    closed,      \* Sessions on which Close() was called
    supPc,       \* position of the supervisor goroutine
    supOk,       \* e == nil of the supervisor's last conn.Connect()
    newConn,     \* newConn of the supervisor's last conn.Connect()
    nSignals,    \* values received from `reconnect`
    nConnects,   \* supervisor calls to conn.Connect() begun
    inFlight,    \* supervisor calls to conn.Connect() begun and not yet returned
    nPublished,  \* values received from `ReconnectStatus`
    outcomes,    \* the values received from `ReconnectStatus`, oldest first
    call,        \* per caller: the facade invocation it is executing
    SSHTrustedKey, \* Config.SSHTrustedKey
    handshake    \* the host key check of the supervisor's last conn.Connect()

vars == <<clientLog, seen, closed, supPc, supOk, newConn, nSignals, nConnects,
          inFlight, nPublished, outcomes, call, SSHTrustedKey, handshake>>

----------------------------------------------------------------------------
(* Bounds *)

MaxConnects == 2
MaxWalkSteps == 3
MaxPathLen == 4
MaxKeyLen == 2

----------------------------------------------------------------------------
(* Strings *)

\* the nil error; every other error is the text of its Error()
NilErr == <<"<nil>">>

\* the literal of `strings.Contains(err.Error(), "connection lost")`
ConnectionLost ==
    <<"c","o","n","n","e","c","t","i","o","n"," ","l","o","s","t">>

\* strings.Contains(s, substr)
Contains(s, substr) ==
    \E i \in 0..(Len(s) - Len(substr)) : SubSeq(s, i + 1, i + Len(substr)) = substr

\* strings.HasPrefix(s, prefix)
HasPrefix(s, prefix) ==
    Len(s) >= Len(prefix) /\ SubSeq(s, 1, Len(prefix)) = prefix

Separator == "/"

\* index of the first Separator of s, 0 when there is none
RECURSIVE IndexSep(_, _)
IndexSep(s, i) ==
    IF i > Len(s) THEN 0
    ELSE IF s[i] = Separator THEN i ELSE IndexSep(s, i + 1)

\* strings.Split(s, "/"): n+1 pieces for n separators, <<"">> for the empty string
RECURSIVE Split(_)
Split(s) ==
    LET i == IndexSep(s, 1)
    IN  IF i = 0 THEN <<s>>
        ELSE <<SubSeq(s, 1, i - 1)>> \o Split(SubSeq(s, i + 1, Len(s)))

\* strings.Join(elems, "/")
RECURSIVE JoinSep(_)
JoinSep(elems) ==
    IF elems = <<>> THEN <<>>
    ELSE IF Len(elems) = 1 THEN elems[1]
    ELSE elems[1] \o <<Separator>> \o JoinSep(Tail(elems))

Dot == <<".">>
DotDot == <<".", ".">>

\* the element stack of filepath.Clean after reading the elements `elems`
RECURSIVE CleanElems(_, _, _)
CleanElems(elems, out, rooted) ==
    IF elems = <<>> THEN out
    ELSE LET e == Head(elems)
             rest == Tail(elems)
         IN  IF e = <<>> \/ e = Dot THEN CleanElems(rest, out, rooted)
             ELSE IF e = DotDot
                  THEN IF out # <<>> /\ out[Len(out)] # DotDot
                       THEN CleanElems(rest, SubSeq(out, 1, Len(out) - 1), rooted)
                       ELSE IF rooted THEN CleanElems(rest, out, rooted)
                       ELSE CleanElems(rest, Append(out, e), rooted)
                  ELSE CleanElems(rest, Append(out, e), rooted)

\* filepath.Clean(path) on a system whose separator is '/'
Clean(path) ==
    LET rooted == path # <<>> /\ path[1] = Separator
        out == CleanElems(Split(path), <<>>, rooted)
    IN  IF rooted THEN <<Separator>> \o JoinSep(out)
        ELSE IF out = <<>> THEN Dot ELSE JoinSep(out)

\* index of the last Separator of s, 0 when there is none
RECURSIVE LastIndexSep(_, _)
LastIndexSep(s, i) ==
    IF i = 0 THEN 0
    ELSE IF s[i] = Separator THEN i ELSE LastIndexSep(s, i - 1)

\* filepath.Dir(path)
Dir(path) == Clean(SubSeq(path, 1, LastIndexSep(path, Len(path))))

\* filepath.Join(a, b)
Join(a, b) ==
    IF a # <<>> THEN Clean(a \o <<Separator>> \o b)
    ELSE IF b # <<>> THEN Clean(b)
    ELSE <<>>

----------------------------------------------------------------------------
(* Values supplied by the collaborators (Session, SftpConn, local files) *)

ErrLost == ConnectionLost
ErrWrapped == <<"E", ":", " ">> \o ConnectionLost \o <<"!">>
ErrUpper == <<"C">> \o Tail(ConnectionLost)
ErrEOF == <<"E", "O", "F">>

\* the error texts a Session call, os.Open, io.Copy or the parser may return
ErrTexts == {ErrLost, ErrWrapped, ErrUpper, ErrEOF}


\* the entries a walker may report: (walker.Path(), walker.Stat().IsDir())
WalkEntries ==
    { [path |-> "/reports",           isDir |-> TRUE],
      [path |-> "/reports/a.txt",     isDir |-> FALSE],
      [path |-> "/reports/sub",       isDir |-> TRUE],
      [path |-> "/reports/sub/b.txt", isDir |-> FALSE] }

\* the results of Session.ReadDir
DirListings == { <<>>, <<"e1">>, <<"e1", "e2">> }

\* the results of the caller-supplied onReader
RecordSets == { <<>>, <<"r1">> }

PathChars == {"/", ".", "a", "b"}

RECURSIVE SeqsUpTo(_, _)
SeqsUpTo(S, n) ==
    IF n = 0 THEN { <<>> }
    ELSE LET shorter == SeqsUpTo(S, n - 1)
         IN  shorter \cup { Append(s, x) : s \in { t \in shorter : Len(t) = n - 1 }, x \in S }

\* every non-empty remote path of at most MaxPathLen characters
AllPaths == SeqsUpTo(PathChars, MaxPathLen) \ { <<>> }

\* the remote paths used when the run is not about paths
FewPaths == { <<"/", "a", "/", "b">>, <<"a", "/", "b">> }

AllCallers == {1, 2}

\* the inputs of two concurrent callers
FewInputs ==
    [ paths   |-> FewPaths,
      errs    |-> {ErrLost, ErrEOF},
      entries |-> { w \in WalkEntries : w.path \in {"/reports", "/reports/a.txt"} } ]

\* the inputs of a single caller: every error text and walker entry
ManyInputs == [paths |-> FewPaths, errs |-> ErrTexts, entries |-> WalkEntries]

\* the inputs of a single uploading caller: every remote path
PathInputs == [paths |-> AllPaths, errs |-> {ErrLost, ErrEOF}, entries |-> {}]

\* the outcomes of a call that returns an error: nil or one of the texts
Errors(In) == {NilErr} \cup In.errs

NoSession == 0 - 1
NilFile == "nil"
OpenedFile == "file"

----------------------------------------------------------------------------
(* Host keys *)

Base64Alphabet ==
    << "A","B","C","D","E","F","G","H","I","J","K","L","M",
       "N","O","P","Q","R","S","T","U","V","W","X","Y","Z",
       "a","b","c","d","e","f","g","h","i","j","k","l","m",
       "n","o","p","q","r","s","t","u","v","w","x","y","z",
       "0","1","2","3","4","5","6","7","8","9","+","/" >>

Base64Char(n) == Base64Alphabet[n + 1]

\* base64.StdEncoding.EncodeToString(b), b a sequence of bytes
RECURSIVE EncodeToString(_)
EncodeToString(b) ==
    IF b = <<>> THEN <<>>
    ELSE IF Len(b) = 1
         THEN << Base64Char(b[1] \div 4), Base64Char((b[1] % 4) * 16), "=", "=" >>
    ELSE IF Len(b) = 2
         THEN << Base64Char(b[1] \div 4),
                 Base64Char((b[1] % 4) * 16 + b[2] \div 16),
                 Base64Char((b[2] % 16) * 4), "=" >>
    ELSE << Base64Char(b[1] \div 4),
            Base64Char((b[1] % 4) * 16 + b[2] \div 16),
            Base64Char((b[2] % 16) * 4 + b[3] \div 64),
            Base64Char(b[3] % 64) >> \o EncodeToString(SubSeq(b, 4, Len(b)))

\* a key string that runs the type and the encoding together
keyString_NoSeparator(k) == k.type \o EncodeToString(k.blob)

\* keyString(k): k.Type() + " " + base64 of k.Marshal()
keyString(k) == k.type \o <<" ">> \o EncodeToString(k.blob)

\* the result of a host key callback: the error it returns, if any, with its
\* two operands, and the key string it logged, if any
Accepted(k, logged) ==
    [k |-> k, failed |-> FALSE, expected |-> <<>>, got |-> <<>>, warning |-> logged]

Rejected(k, trustedKey, ks) ==
    [k |-> k, failed |-> TRUE, expected |-> trustedKey, got |-> ks, warning |-> <<>>]

\* the callback returned by trustedHostKeyCallback(trustedKey), applied to k
trustedHostKeyCallback(trustedKey, k) ==
    IF trustedKey = <<>>
    THEN Accepted(k, keyString(k))
    ELSE LET ks == keyString(k)
         IN  IF trustedKey # ks THEN Rejected(k, trustedKey, ks) ELSE Accepted(k, <<>>)

\* ssh.InsecureIgnoreHostKey(), applied to k: accepts and logs nothing
InsecureIgnoreHostKey(k) == Accepted(k, <<>>)

\* no host key was presented
NoKey == [type |-> <<>>, blob |-> <<>>]

\* config.HostKeyCallback as chosen by sftpConn.Connect, applied to the host
\* key k of the server
HostKeyCheck(trustedKey, k) ==
    IF k = NoKey THEN Accepted(NoKey, <<>>)
    ELSE IF trustedKey # <<>> THEN trustedHostKeyCallback(trustedKey, k)
    ELSE InsecureIgnoreHostKey(k)

KeyTypeRSA == <<"s","s","h","-","r","s","a">>
KeyTypeED == <<"s","s","h","-","e","d","2","5","5","1","9">>
KeyTypes == {KeyTypeRSA, KeyTypeED}

\* the bytes of a marshaled key
KeyBytes == {77, 97}

\* every host key of at most MaxKeyLen marshaled bytes
AllKeys == [type : KeyTypes, blob : SeqsUpTo(KeyBytes, MaxKeyLen) \ { <<>> }]

\* the host key of the server when the run is not about host keys
FewKeys == { [type |-> KeyTypeRSA, blob |-> <<77, 97>>] }

\* the trusted keys an operator may configure: none, or the key string of a host key
TrustedKeys == { <<>> } \cup { keyString(k) : k \in AllKeys }

\* the inputs of a caller when the run is about host keys
KeyInputs == [paths |-> FewPaths, errs |-> {ErrLost}, entries |-> {}]

----------------------------------------------------------------------------
(* State of one facade invocation *)

IdleCall ==
    [ op      |-> "none",     \* the facade method being executed
      pc      |-> "idle",     \* position in it
      sess    |-> NoSession,  \* the sc.Client value its last Session call was made on
      err     |-> NilErr,     \* err: the error of the last call made
      hargs   |-> <<>>,       \* the arguments ConnectionLostHandler was called with
      sent    |-> 0,          \* completed sends on sc.reconnect
      file    |-> NilFile,    \* file / dstFile
      entries |-> <<>>,       \* entries of Files
      walked  |-> <<>>,       \* the steps the walker has reported
      files   |-> <<>>,       \* files of WalkFiles
      remote  |-> <<>>,       \* remoteFile
      dirs    |-> <<>>,       \* the elements of dirs not yet visited
      path    |-> <<>>,       \* path of the directory loop
      mkdirs  |-> <<>>,       \* the arguments of the Session.Mkdir calls made
      mkfail  |-> FALSE,      \* some Session.Mkdir call returned an error
      created |-> FALSE,      \* Session.Create was called
      parsed  |-> <<>>,       \* the handles onReader was called with
      nilUse  |-> FALSE,      \* a nil error or nil handle was dereferenced
      ret     |-> [val |-> <<>>, err |-> NilErr] ]

\* ftpConn.Client
Client == clientLog[Len(clientLog)]

\* the state after NewClient returned a connected client whose Config has one
\* of the trusted keys T
InitWith(T) ==
    /\ SSHTrustedKey \in T
    /\ handshake = HostKeyCheck(<<>>, NoKey)
    /\ clientLog = <<0>>
    /\ seen = [c \in AllCallers |-> 1]
    /\ closed = {}
    /\ supPc = "idle"
    /\ supOk = FALSE
    /\ newConn = NoSession
    /\ nSignals = 0
    /\ nConnects = 0
    /\ inFlight = 0
    /\ nPublished = 0
    /\ outcomes = <<>>
    /\ call = [c \in AllCallers |-> IdleCall]

\* a Config without trusted key, as built by the example program
Init == InitWith({ <<>> })

\* a Config with no trusted key or with the key of one of the host keys
KeyInit == InitWith(TrustedKeys)

supVars == <<supPc, supOk, newConn, nSignals, nConnects, inFlight, nPublished, outcomes,
             SSHTrustedKey, handshake>>

\* a caller's step that reads sc.Client without synchronisation: it observes
\* the newest write or any older one it has not yet seen overwritten
ReadsClient(c, i) ==
    /\ i \in seen[c]..Len(clientLog)
    /\ seen' = [seen EXCEPT ![c] = i]

\* a caller's step that touches neither the supervisor nor sc.Client
LocalStep(c, new) ==
    /\ call' = [call EXCEPT ![c] = new]
    /\ UNCHANGED <<clientLog, seen, closed, supVars>>

\* a caller's step that makes one Session call on sc.Client
SessionStep(c, i, new) ==
    /\ ReadsClient(c, i)
    /\ call' = [call EXCEPT ![c] = [new EXCEPT !.sess = clientLog[i]]]
    /\ UNCHANGED <<clientLog, closed, supVars>>

----------------------------------------------------------------------------
(* ConnectionLostHandler and the supervisor goroutine of NewClient *)

\* a handler that only recognises the phrase at the start of the message
ShouldReconnect_Prefix(err) == HasPrefix(err, ConnectionLost)

\* the condition of ConnectionLostHandler, for a non-nil err
ShouldReconnect(err) == Contains(err, ConnectionLost)

\* a supervisor that takes the next signal while an attempt is unfinished
SupCanReceive_Always == supPc \in {"idle", "connect", "assign", "publish"}

\* the supervisor is at `case res := <-reconnect`
SupCanReceive == supPc = "idle"

\* ConnectionLostHandler(err) up to its send: err.Error() on a nil error is a
\* nil dereference, which panics
ConnectionLostHandler(c) ==
    /\ call[c].pc = "handler"
    /\ LET arg == call[c].err
           entered == [call[c] EXCEPT !.hargs = Append(@, arg)]
       IN  LocalStep(c,
             IF arg = NilErr
             THEN [entered EXCEPT !.pc = "panicked", !.nilUse = TRUE]
             ELSE IF ShouldReconnect(arg)
                  THEN [entered EXCEPT !.pc = "send"]
                  ELSE [entered EXCEPT !.pc = "handled"])

\* `sc.reconnect <- true` meeting `res := <-reconnect`; res is true, so the
\* supervisor goes on to call conn.Connect()
ReconnectSend(c) ==
    /\ call[c].pc = "send"
    /\ SupCanReceive
    /\ nConnects < MaxConnects
    /\ call' = [call EXCEPT ![c] = [@ EXCEPT !.pc = "handled", !.sent = @ + 1]]
    /\ seen' = [seen EXCEPT ![c] = Len(clientLog)]
    /\ supPc' = "connect"
    /\ nSignals' = nSignals + 1
    /\ nConnects' = nConnects + 1
    /\ inFlight' = inFlight + 1
    /\ UNCHANGED <<clientLog, closed, supOk, newConn, nPublished, outcomes,
                   SSHTrustedKey, handshake>>

\* a supervisor that assigns newConn whatever the error of Connect
SupConnectReturns_AlwaysAssigns(Keys) ==
    /\ supPc = "connect"
    /\ \E k \in Keys, rest \in BOOLEAN :
          LET check == HostKeyCheck(SSHTrustedKey, k)
              ok == ~check.failed /\ rest
          IN  /\ handshake' = check
              /\ supOk' = ok
              /\ newConn' = IF ok THEN nConnects ELSE NoSession
              /\ supPc' = "assign"
    /\ inFlight' = inFlight - 1
    /\ UNCHANGED <<clientLog, seen, closed, nSignals, nConnects, nPublished, outcomes, call,
                   SSHTrustedKey>>

\* a supervisor that publishes the outcome without assigning newConn
SupConnectReturns_NeverAssigns(Keys) ==
    /\ supPc = "connect"
    /\ \E k \in Keys, rest \in BOOLEAN :
          LET check == HostKeyCheck(SSHTrustedKey, k)
              ok == ~check.failed /\ rest
          IN  /\ handshake' = check
              /\ supOk' = ok
              /\ newConn' = IF ok THEN nConnects ELSE NoSession
              /\ supPc' = "publish"
    /\ inFlight' = inFlight - 1
    /\ UNCHANGED <<clientLog, seen, closed, nSignals, nConnects, nPublished, outcomes, call,
                   SSHTrustedKey>>

\* conn.Connect() returns to the supervisor: the server presented host key k
\* (NoKey when the dial failed before the key exchange), the callback chosen
\* by Connect checked it, and `rest` is the success of the rest of ssh.Dial
\* and of sftp.NewClient
SupConnectReturns(Keys) ==
    /\ supPc = "connect"
    /\ \E k \in Keys, rest \in BOOLEAN :
          LET check == HostKeyCheck(SSHTrustedKey, k)
              ok == ~check.failed /\ rest
          IN  /\ handshake' = check
              /\ supOk' = ok
              /\ newConn' = IF ok THEN nConnects ELSE NoSession
              /\ supPc' = IF ok THEN "assign" ELSE "publish"
    /\ inFlight' = inFlight - 1
    /\ UNCHANGED <<clientLog, seen, closed, nSignals, nConnects, nPublished, outcomes, call,
                   SSHTrustedKey>>

\* a supervisor that goes back to its receive without publishing the outcome
SupAssign_SkipsPublish ==
    /\ supPc = "assign"
    /\ clientLog' = Append(clientLog, newConn)
    /\ supPc' = "idle"
    /\ UNCHANGED <<seen, closed, supOk, newConn, nSignals, nConnects, inFlight,
                   nPublished, outcomes, call, SSHTrustedKey, handshake>>

\* ftpConn.Client = newConn
SupAssign ==
    /\ supPc = "assign"
    /\ clientLog' = Append(clientLog, newConn)
    /\ supPc' = "publish"
    /\ UNCHANGED <<seen, closed, supOk, newConn, nSignals, nConnects, inFlight,
                   nPublished, outcomes, call, SSHTrustedKey, handshake>>

\* `ftpConn.ReconnectStatus <- ok` meeting a receive by some reader of the channel
SupPublish ==
    /\ supPc = "publish"
    /\ outcomes' = Append(outcomes, [ok |-> supOk, conn |-> newConn])
    /\ nPublished' = nPublished + 1
    /\ supPc' = "idle"
    /\ UNCHANGED <<clientLog, seen, closed, supOk, newConn, nSignals, nConnects,
                   inFlight, call, SSHTrustedKey, handshake>>

----------------------------------------------------------------------------
(* Facade operations *)

Invoke(opName) == [IdleCall EXCEPT !.op = opName]

Returns(cl, v, e) == [cl EXCEPT !.pc = "done", !.ret = [val |-> v, err |-> e]]

\* MoveFile, up to its call of ConnectionLostHandler
MoveFile(c, In) ==
    /\ call[c].pc = "idle"
    /\ \E i \in 1..Len(clientLog), e \in Errors(In) :
          SessionStep(c, i, [Invoke("MoveFile") EXCEPT !.err = e, !.pc = "handler"])

\* `return err` of MoveFile
MoveFileReturn(c) ==
    /\ call[c].op = "MoveFile" /\ call[c].pc = "handled"
    /\ LocalStep(c, Returns(call[c], <<>>, call[c].err))

\* RemoveFile, up to its call of ConnectionLostHandler
RemoveFile(c, In) ==
    /\ call[c].pc = "idle"
    /\ \E i \in 1..Len(clientLog), e \in Errors(In) :
          SessionStep(c, i, [Invoke("RemoveFile") EXCEPT !.err = e, !.pc = "handler"])

\* `return err` of RemoveFile
RemoveFileReturn(c) ==
    /\ call[c].op = "RemoveFile" /\ call[c].pc = "handled"
    /\ LocalStep(c, Returns(call[c], <<>>, call[c].err))

\* OpenFile, up to `return file, nil` or the call of ConnectionLostHandler
OpenFile(c, In) ==
    /\ call[c].pc = "idle"
    /\ \E i \in 1..Len(clientLog), e \in Errors(In) :
          SessionStep(c, i,
            IF e = NilErr
            THEN Returns([Invoke("OpenFile") EXCEPT !.file = OpenedFile], OpenedFile, NilErr)
            ELSE [Invoke("OpenFile") EXCEPT !.err = e, !.pc = "handler"])

\* `return nil, err` of OpenFile
OpenFileReturn(c) ==
    /\ call[c].op = "OpenFile" /\ call[c].pc = "handled"
    /\ LocalStep(c, Returns(call[c], NilFile, call[c].err))

\* GetRecords, up to the return of sc.Client.Open inside its OpenFile
GetRecords(c, In) ==
    /\ call[c].pc = "idle"
    /\ \E i \in 1..Len(clientLog), e \in Errors(In) :
          SessionStep(c, i,
            IF e = NilErr
            THEN [Invoke("GetRecords") EXCEPT !.file = OpenedFile, !.pc = "parse"]
            ELSE [Invoke("GetRecords") EXCEPT !.err = e, !.pc = "handler"])

\* GetRecords after a ConnectionLostHandler call returned: the first call is
\* the one of OpenFile, the second the one of GetRecords itself
GetRecordsHandled(c) ==
    /\ call[c].op = "GetRecords" /\ call[c].pc = "handled"
    /\ LocalStep(c, [call[c] EXCEPT !.pc = IF Len(call[c].hargs) = 1 THEN "handler" ELSE "parse"])

\* `contents, err := onReader(file)` and the return of GetRecords
GetRecordsParse(c, In) ==
    /\ call[c].op = "GetRecords" /\ call[c].pc = "parse"
    /\ \E recs \in RecordSets, e \in Errors(In) :
          LocalStep(c, LET cl == [call[c] EXCEPT !.parsed = Append(@, call[c].file), !.err = e]
                       IN  IF e # NilErr THEN Returns(cl, <<>>, e) ELSE Returns(cl, recs, NilErr))

\* Files, up to `return entries` or the call of ConnectionLostHandler
Files(c, In) ==
    /\ call[c].pc = "idle"
    /\ \E i \in 1..Len(clientLog), e \in Errors(In), l \in DirListings :
          SessionStep(c, i,
            IF e = NilErr
            THEN Returns([Invoke("Files") EXCEPT !.entries = l], l, NilErr)
            ELSE [Invoke("Files") EXCEPT !.err = e, !.pc = "handler"])

\* a Files whose result carries the error
FilesReturn_WithError(c) ==
    /\ call[c].op = "Files" /\ call[c].pc = "handled"
    /\ LocalStep(c, Returns(call[c], <<>>, call[c].err))

\* `return []os.FileInfo{}` of Files
FilesReturn(c) ==
    /\ call[c].op = "Files" /\ call[c].pc = "handled"
    /\ LocalStep(c, Returns(call[c], <<>>, NilErr))

\* a Close that also clears sc.Client
Close_ClearsClient(c, In) ==
    /\ call[c].pc = "idle"
    /\ \E i \in 1..Len(clientLog), e \in Errors(In) :
          /\ ReadsClient(c, i)
          /\ closed' = closed \cup {clientLog[i]}
          /\ call' = [call EXCEPT ![c] =
                        Returns([Invoke("Close") EXCEPT !.sess = clientLog[i], !.err = e], <<>>, e)]
    /\ clientLog' = Append(clientLog, NoSession)
    /\ UNCHANGED supVars

\* Close
Close(c, In) ==
    /\ call[c].pc = "idle"
    /\ \E i \in 1..Len(clientLog), e \in Errors(In) :
          /\ ReadsClient(c, i)
          /\ closed' = closed \cup {clientLog[i]}
          /\ call' = [call EXCEPT ![c] =
                        Returns([Invoke("Close") EXCEPT !.sess = clientLog[i], !.err = e], <<>>, e)]
    /\ UNCHANGED <<clientLog, supVars>>

\* the caller has its result and may invoke the next operation
Return(c) ==
    /\ call[c].pc = "done"
    /\ LocalStep(c, IdleCall)

\* WalkFiles, up to `walker := sc.Client.Walk(remoteDir)`
WalkFiles(c) ==
    /\ call[c].pc = "idle"
    /\ \E i \in 1..Len(clientLog) :
          SessionStep(c, i, [Invoke("WalkFiles") EXCEPT !.pc = "walk"])

\* a loop body that forgets the IsDir test
WalkAppend_AllEntries(files, entry) == Append(files, entry.path)

\* the body of the walk loop for a step that reported no error
WalkAppend(files, entry) ==
    IF ~entry.isDir THEN Append(files, entry.path) ELSE files

\* the paths the walker has reported so far
WalkedPaths(cl) == { cl.walked[k].path : k \in 1..Len(cl.walked) }

\* one evaluation of `walker.Step()` and of the loop body, or the return
\* after the loop when Step() is false
WalkStep(c, In) ==
    /\ call[c].pc = "walk"
    /\ \/ LocalStep(c, Returns(call[c], call[c].files, NilErr))
       \/ /\ Len(call[c].walked) < MaxWalkSteps
          /\ \E entry \in In.entries :
                /\ entry.path \notin WalkedPaths(call[c])
                /\ \/ LocalStep(c, [call[c] EXCEPT
                                      !.walked = Append(@, [path |-> entry.path, isDir |-> entry.isDir, err |-> NilErr]),
                                      !.files = WalkAppend(@, entry)])
                   \/ \E e \in In.errs :
                         LocalStep(c, [call[c] EXCEPT
                                         !.walked = Append(@, [path |-> entry.path, isDir |-> entry.isDir, err |-> e]),
                                         !.err = e,
                                         !.pc = "handler"])

\* a WalkFiles that returns the partial list without the error
WalkFilesReturn_NoError(c) ==
    /\ call[c].op = "WalkFiles" /\ call[c].pc = "handled"
    /\ LocalStep(c, Returns(call[c], call[c].files, NilErr))

\* `return files, err` of WalkFiles
WalkFilesReturn(c) ==
    /\ call[c].op = "WalkFiles" /\ call[c].pc = "handled"
    /\ LocalStep(c, Returns(call[c], call[c].files, call[c].err))

\* the setup of the directory loop: parent, path, dirs
MkdirSetup(cl, remoteFile) ==
    [cl EXCEPT !.remote = remoteFile,
               !.path = <<Separator>>,
               !.dirs = Split(Dir(remoteFile)),
               !.pc = "mkdir"]

\* PutFile, up to the directory loop or the call of ConnectionLostHandler
\* after a failed os.Open
PutFile(c, In) ==
    /\ call[c].pc = "idle"
    /\ \E remoteFile \in In.paths, e \in Errors(In) :
          LocalStep(c,
            IF e # NilErr
            THEN [Invoke("PutFile") EXCEPT !.remote = remoteFile, !.err = e, !.pc = "handler"]
            ELSE MkdirSetup(Invoke("PutFile"), remoteFile))

\* PutString, up to the directory loop
PutString(c, In) ==
    /\ call[c].pc = "idle"
    /\ \E remoteFile \in In.paths :
          LocalStep(c, MkdirSetup(Invoke("PutString"), remoteFile))

\* one iteration of `for _, dir := range dirs`; the error of Mkdir is dropped
PutMkdir(c) ==
    /\ call[c].pc = "mkdir"
    /\ call[c].dirs # <<>>
    /\ \E i \in 1..Len(clientLog), failed \in BOOLEAN :
          LET next == Join(call[c].path, Head(call[c].dirs))
          IN  SessionStep(c, i, [call[c] EXCEPT !.path = next,
                                                !.dirs = Tail(@),
                                                !.mkdirs = Append(@, next),
                                                !.mkfail = @ \/ failed])

\* `dstFile, err := sc.Client.Create(remoteFile)` after the directory loop
PutCreate(c, In) ==
    /\ call[c].pc = "mkdir"
    /\ call[c].dirs = <<>>
    /\ \E i \in 1..Len(clientLog), e \in Errors(In) :
          SessionStep(c, i,
            IF e = NilErr
            THEN [call[c] EXCEPT !.created = TRUE, !.file = OpenedFile, !.pc = "copy"]
            ELSE [call[c] EXCEPT !.created = TRUE, !.err = e, !.pc = "handler"])

\* `return err` of PutFile after ConnectionLostHandler returned
PutFileFailed(c) ==
    /\ call[c].op = "PutFile" /\ call[c].pc = "handled"
    /\ LocalStep(c, Returns(call[c], <<>>, call[c].err))

\* PutString after ConnectionLostHandler returned: it goes on with a nil dstFile
PutStringFailed(c) ==
    /\ call[c].op = "PutString" /\ call[c].pc = "handled"
    /\ LocalStep(c, [call[c] EXCEPT !.pc = "copy"])

\* io.Copy and the return of PutFile
PutFileCopy(c, In) ==
    /\ call[c].op = "PutFile" /\ call[c].pc = "copy"
    /\ \E e \in Errors(In) : LocalStep(c, Returns([call[c] EXCEPT !.err = e], <<>>, e))

\* io.Copy, the deferred dstFile.Close() and the return of PutString; writing
\* to or closing a nil *sftp.File dereferences it
PutStringCopy(c, In) ==
    /\ call[c].op = "PutString" /\ call[c].pc = "copy"
    /\ IF call[c].file = NilFile
       THEN LocalStep(c, [call[c] EXCEPT !.pc = "panicked", !.nilUse = TRUE])
       ELSE \E e \in Errors(In) : LocalStep(c, Returns([call[c] EXCEPT !.err = e], <<>>, NilErr))

----------------------------------------------------------------------------
(* Specifications *)

CallerStep(c, In) ==
    \/ MoveFile(c, In) \/ MoveFileReturn(c)
    \/ RemoveFile(c, In) \/ RemoveFileReturn(c)
    \/ OpenFile(c, In) \/ OpenFileReturn(c)
    \/ GetRecords(c, In) \/ GetRecordsHandled(c) \/ GetRecordsParse(c, In)
    \/ Files(c, In) \/ FilesReturn(c)
    \/ WalkFiles(c) \/ WalkStep(c, In) \/ WalkFilesReturn(c)
    \/ PutFile(c, In) \/ PutString(c, In) \/ PutMkdir(c) \/ PutCreate(c, In)
    \/ PutFileFailed(c) \/ PutStringFailed(c) \/ PutFileCopy(c, In) \/ PutStringCopy(c, In)
    \/ Close(c, In)
    \/ ConnectionLostHandler(c) \/ ReconnectSend(c)
    \/ Return(c)

\* a second goroutine of the program that only moves and lists files
OtherStep(c, In) ==
    \/ MoveFile(c, In) \/ MoveFileReturn(c)
    \/ Files(c, In) \/ FilesReturn(c)
    \/ ConnectionLostHandler(c) \/ ReconnectSend(c)
    \/ Return(c)

\* a goroutine that only uploads
PutStep(c, In) ==
    \/ PutFile(c, In) \/ PutString(c, In) \/ PutMkdir(c) \/ PutCreate(c, In)
    \/ PutFileFailed(c) \/ PutStringFailed(c) \/ PutFileCopy(c, In) \/ PutStringCopy(c, In)
    \/ ConnectionLostHandler(c) \/ ReconnectSend(c)
    \/ Return(c)

Supervisor(Keys) == SupConnectReturns(Keys) \/ SupAssign \/ SupPublish

\* two concurrent callers and the supervisor
Next == CallerStep(1, FewInputs) \/ OtherStep(2, FewInputs) \/ Supervisor(FewKeys)

Spec == Init /\ [][Next]_vars

\* one caller and the supervisor, every error text and walker entry
SeqNext == CallerStep(1, ManyInputs) \/ Supervisor(FewKeys)

SeqSpec == Init /\ [][SeqNext]_vars

\* one uploading caller and the supervisor, every remote path
PutNext == PutStep(1, PathInputs) \/ Supervisor(FewKeys)

\* one caller and the supervisor, every trusted key and every host key
KeyNext == OtherStep(1, KeyInputs) \/ Supervisor(AllKeys \cup {NoKey})

KeySpec == KeyInit /\ [][KeyNext]_vars

PutSpec == Init /\ [][PutNext]_vars

\* two concurrent callers and the supervisor in a program where no goroutine
\* receives from ReconnectStatus
NoReaderNext ==
    \/ CallerStep(1, FewInputs) \/ OtherStep(2, FewInputs)
    \/ SupConnectReturns(FewKeys) \/ SupAssign

NoReaderSpec == Init /\ [][NoReaderNext]_vars

\* the goroutine scheduler runs the supervisor whenever it can take a step of
\* its own; nothing in the package receives from ReconnectStatus, so SupPublish
\* has no fairness
SupFairness == WF_vars(SupConnectReturns(FewKeys)) /\ WF_vars(SupAssign)

FairSpec == Spec /\ SupFairness

\* a caller inside WalkFiles keeps running
FairSeqSpec == SeqSpec /\ SupFairness /\ WF_vars(WalkStep(1, ManyInputs))

\* a caller inside GetRecords keeps running whenever it can take a step
GetRecordsFairness(c, In) ==
    /\ WF_vars(ConnectionLostHandler(c))
    /\ WF_vars(ReconnectSend(c))
    /\ WF_vars(GetRecordsHandled(c))
    /\ WF_vars(GetRecordsParse(c, In))

FairGetSpec == SeqSpec /\ SupFairness /\ GetRecordsFairness(1, ManyInputs)

----------------------------------------------------------------------------
(* Properties *)

\* caller c is at `sc.reconnect <- true` and the supervisor is not at its
\* receive: c waits for the connect attempt and the publication of its outcome
BlockedOnReconnect(c) == call[c].pc = "send" /\ supPc # "idle"

\* C1: no facade operation waits for the supervisor: no invocation is ever
\* stopped at its reconnect send while the supervisor is connecting or
\* publishing an outcome.
C1_NoOperationBlocksOnReconnect == \A c \in AllCallers : ~BlockedOnReconnect(c)

\* the number of handler calls of invocation cl whose error text contains
\* the phrase "connection lost"
LostArgs(cl) ==
    Cardinality({ k \in 1..Len(cl.hargs) :
                    cl.hargs[k] # NilErr /\ Contains(cl.hargs[k], ConnectionLost) })

\* C2: ConnectionLostHandler reaches its send on the reconnect channel exactly
\* for the errors whose text contains "connection lost": in every invocation
\* the sends made or being made are as many as the handler calls with such an
\* error, and a handler call with any other text leaves the supervisor alone.
C2_SignalIffConnectionLost ==
    \A c \in AllCallers :
        LET cl == call[c]
        IN  /\ cl.sent + (IF cl.pc = "send" THEN 1 ELSE 0) = LostArgs(cl)
            /\ cl.pc = "send" => Contains(cl.hargs[Len(cl.hargs)], ConnectionLost)

C2_Witness ==
    \E c \in AllCallers :
        /\ call[c].pc = "done"
        /\ call[c].hargs = <<ErrWrapped>>
        /\ call[c].sent = 1

\* C3: at most one supervisor call of Connect is in progress, and the
\* supervisor has received at most one signal whose outcome is unpublished.
C3_OneConnectInFlight ==
    /\ inFlight <= 1
    /\ nSignals - nPublished \in {0, 1}
    /\ nConnects = nSignals
    /\ supPc = "idle" <=> nSignals = nPublished

C3_Witness ==
    /\ inFlight = 1
    /\ \E c \in AllCallers : call[c].pc = "send"
    /\ nPublished = 1

\* C4: every connect attempt of the supervisor is followed by its return to
\* Idle, ready for the next signal.
C4_SupervisorReturnsToIdle == (supPc = "connect") ~> (supPc = "idle")

\* C5: MoveFile and RemoveFile end by returning the value of Session.Rename /
\* Session.Remove, the nil of a successful call included: no such invocation
\* is aborted, and a returned value is the one of the Session call.
C5_ReturnsSessionResult ==
    \A c \in AllCallers :
        call[c].op \in {"MoveFile", "RemoveFile"} =>
            /\ call[c].pc # "panicked"
            /\ call[c].pc = "done" => call[c].ret.err = call[c].err

\* C6: no facade invocation panics, and none dereferences a nil error or a
\* nil file handle.
C6_NoPanicPath ==
    \A c \in AllCallers : call[c].pc # "panicked" /\ ~call[c].nilUse

\* the paths of the non-directory entries among walker steps, in their order
RECURSIVE FilePaths(_)
FilePaths(steps) ==
    IF steps = <<>> THEN <<>>
    ELSE LET rest == FilePaths(SubSeq(steps, 1, Len(steps) - 1))
             last == steps[Len(steps)]
         IN  IF last.isDir THEN rest ELSE rest \o <<last.path>>

NoStepError(cl) == \A k \in 1..Len(cl.walked) : cl.walked[k].err = NilErr

NumFiles(cl) == Cardinality({ k \in 1..Len(cl.walked) : ~cl.walked[k].isDir })

\* the state part of C7
WalkCollectsFiles ==
    \A c \in AllCallers :
        LET cl == call[c]
        IN  (cl.op = "WalkFiles" /\ NoStepError(cl)) =>
                /\ cl.files = FilePaths(cl.walked)
                /\ Len(cl.files) = NumFiles(cl)
                /\ cl.pc \in {"walk", "done"}
                /\ cl.pc = "done" => cl.ret = [val |-> FilePaths(cl.walked), err |-> NilErr]

Walking(c) == call[c].op = "WalkFiles" /\ call[c].pc = "walk"

\* C7: while no walker step reports an error, WalkFiles holds and finally
\* returns, with a nil error, exactly the paths of the non-directory entries
\* the walker reported, in the walker's order (N paths for N files, whatever
\* the number of directories), and a walk always leaves its loop.
C7_WalkFilesReturnsFiles ==
    /\ []WalkCollectsFiles
    /\ \A c \in AllCallers : Walking(c) ~> ~Walking(c)

C7_Witness ==
    \E c \in AllCallers :
        /\ call[c].op = "WalkFiles" /\ call[c].pc = "done"
        /\ Len(call[c].walked) = 3
        /\ call[c].walked[2] = [path |-> "/reports/sub", isDir |-> TRUE, err |-> NilErr]
        /\ call[c].ret = [val |-> <<"/reports/a.txt", "/reports/sub/b.txt">>, err |-> NilErr]

\* C8: only the last walker step of a WalkFiles can have reported an error
\* (the loop takes no step after it); that error is the one argument of
\* ConnectionLostHandler, and WalkFiles returns it with the non-directory
\* paths of the steps before the failing one.
C8_WalkFilesStopsAtFirstError ==
    \A c \in AllCallers :
        LET cl == call[c]
            n == Len(cl.walked)
        IN  cl.op = "WalkFiles" =>
                /\ \A k \in 1..n : cl.walked[k].err # NilErr => k = n
                /\ (n > 0 /\ cl.walked[n].err # NilErr) =>
                      /\ cl.pc # "walk"
                      /\ cl.files = FilePaths(SubSeq(cl.walked, 1, n - 1))
                      /\ cl.pc # "handler" => cl.hargs = <<cl.walked[n].err>>
                      /\ cl.pc = "done" =>
                            cl.ret = [val |-> FilePaths(SubSeq(cl.walked, 1, n - 1)),
                                      err |-> cl.walked[n].err]

C8_Witness ==
    \E c \in AllCallers :
        /\ call[c].op = "WalkFiles" /\ call[c].pc = "done"
        /\ Len(call[c].walked) = 3
        /\ call[c].walked[3].err = ErrLost
        /\ Len(call[c].ret.val) = 1
        /\ call[c].ret.err = ErrLost

\* the directories above `path`, outermost first: one per separator of path
AncestorDirs(path) ==
    LET seps == { k \in 1..Len(path) : path[k] = Separator }
        upTo(k) == IF k = 1 THEN <<Separator>> ELSE SubSeq(path, 1, k - 1)
        RECURSIVE InOrder(_)
        InOrder(S) ==
            IF S = {} THEN <<>>
            ELSE LET m == CHOOSE x \in S : \A y \in S : x <= y
                 IN  <<upTo(m)>> \o InOrder(S \ {m})
    IN  InOrder(seps)

\* a remote path that names a file in some directory: already clean, with a
\* separator, not the root, neither starting nor ending with a "." or ".."
\* element
NamesFile(path) ==
    LET elems == Split(path)
    IN  /\ Clean(path) = path
        /\ Len(elems) > 1
        /\ path # <<Separator>>
        /\ elems[1] \notin {Dot, DotDot}
        /\ elems[Len(elems)] \notin {Dot, DotDot}

\* C9: when PutFile / PutString reach Session.Create for a remote path that
\* names a file in some directory, absolute or relative, the Session.Mkdir calls made are the
\* ancestor directories of the remote path, outermost first: each argument is
\* a prefix of the remote path and the last one is its parent.
C9_MkdirsAreAncestors ==
    \A c \in AllCallers :
        (call[c].created /\ NamesFile(call[c].remote)) =>
            /\ call[c].mkdirs = AncestorDirs(call[c].remote)
            /\ \A k \in 1..Len(call[c].mkdirs) : HasPrefix(call[c].remote, call[c].mkdirs[k])

\* C10: Files returns the entries of Session.ReadDir when it succeeds; when it
\* fails, the error is the one argument of ConnectionLostHandler and the result
\* is the empty list with no error, the same as for an empty directory.
C10_FilesSwallowsError ==
    \A c \in AllCallers :
        LET cl == call[c]
        IN  cl.op = "Files" =>
                /\ (cl.pc = "done" /\ cl.err = NilErr) => cl.ret = [val |-> cl.entries, err |-> NilErr]
                /\ cl.err # NilErr =>
                      /\ cl.pc # "handler" => cl.hargs = <<cl.err>>
                      /\ cl.pc = "done" => cl.ret = [val |-> <<>>, err |-> NilErr]

C10_Witness ==
    \E c \in AllCallers :
        /\ call[c].op = "Files" /\ call[c].pc = "done"
        /\ call[c].err = ErrEOF
        /\ call[c].hargs = <<ErrEOF>>
        /\ call[c].ret.val = <<>>

\* C11: PutString ends by returning nil whatever Session.Create and the copy
\* return: no PutString invocation is aborted, and its returned error is nil.
C11_PutStringReturnsNil ==
    \A c \in AllCallers :
        call[c].op = "PutString" =>
            /\ call[c].pc # "panicked"
            /\ call[c].pc = "done" => call[c].ret.err = NilErr

\* caller c stays at its reconnect send in the next state
StaysAtSend(c) == call[c].pc = "send" => call'[c].pc = "send"

\* C14: when nothing receives from ReconnectStatus, the supervisor never is
\* at its receive again once it took the first signal, it calls Connect once
\* only, and from then on a caller at its reconnect send stays there.
C14_UnreadOutcomeStallsSupervisor ==
    /\ [](nSignals >= 1 => (supPc # "idle" /\ nConnects = 1 /\ nPublished = 0))
    /\ [][nSignals >= 1 => \A c \in AllCallers : StaysAtSend(c)]_vars

C14_Witness ==
    /\ supPc = "publish"
    /\ supOk
    /\ call[1].pc = "send"
    /\ call[2].pc = "send"

\* what a GetRecords invocation has done with onReader so far
GetRecordsContract ==
    \A c \in AllCallers :
        LET cl == call[c]
        IN  cl.op = "GetRecords" =>
                /\ Len(cl.parsed) <= 1
                /\ cl.parsed # <<>> => (cl.parsed[1] = NilFile <=> cl.hargs # <<>>)
                /\ cl.pc = "done" =>
                      /\ Len(cl.parsed) = 1
                      /\ cl.ret.err = cl.err
                      /\ cl.err # NilErr => cl.ret.val = <<>>
                      /\ cl.ret.val \in RecordSets

\* C15: every GetRecords invocation, whatever the open error, comes to call
\* onReader exactly once (with a nil handle exactly when the open failed) and
\* returns onReader's records or onReader's error.  Stated for the first
\* invocation that can trigger a reconnect.
C15_GetRecordsAlwaysParses ==
    /\ []GetRecordsContract
    /\ \A c \in AllCallers :
          (call[c].op = "GetRecords" /\ nConnects = 0)
              ~> (call[c].op = "GetRecords" /\ call[c].pc = "done" /\ Len(call[c].parsed) = 1)

\* the number of successful attempts among the outcomes received
Successes == Cardinality({ k \in 1..Len(outcomes) : outcomes[k].ok })

\* the supervisor has assigned newConn and not yet published the outcome
AssignedUnpublished == supPc = "publish" /\ supOk

\* the state part of C16
ReplacedOncePerSuccess ==
    /\ Len(clientLog) = 1 + Successes + (IF AssignedUnpublished THEN 1 ELSE 0)
    /\ \A k \in 1..Len(outcomes) : outcomes[k].ok <=> outcomes[k].conn # NoSession
    /\ \A k \in 1..Len(outcomes) : ~outcomes[k].ok => outcomes[k].conn \notin {clientLog[i] : i \in 1..Len(clientLog)}
    /\ AssignedUnpublished => (Client = newConn /\ newConn # NoSession)
    /\ \A c \in AllCallers : call[c].pc = "done" => call[c].ret.err \in {NilErr, call[c].err}

\* the supervisor's step from Connect to the publication of a failure
FailedAttemptStep == supPc = "connect" /\ supPc' = "publish"

\* C16: a failed attempt leaves ftpConn.Client as it was and publishes false,
\* a successful one replaces it by the new Session and publishes true; the
\* reference is replaced once per successful attempt, and an operation only
\* ever returns nil or the error of its own call, never the connect error.
C16_FailedAttemptKeepsSession ==
    /\ []ReplacedOncePerSuccess
    /\ [][FailedAttemptStep => (~supOk' /\ clientLog' = clientLog /\ call' = call)]_vars

C16_Witness ==
    /\ Len(outcomes) = 2
    /\ ~outcomes[1].ok
    /\ outcomes[2].ok
    /\ clientLog = <<0, 2>>

\* C17: Close() closes the Session that is current when it is called.
C17_CloseClosesCurrent ==
    [][\A c \in AllCallers :
          (call[c].pc = "idle" /\ call'[c].op = "Close") => closed' = closed \cup {Client}]_vars

\* C18: an operation invoked after the supervisor replaced the Session makes
\* its Session call on the new Session: the Session call of an invocation
\* step goes to the value ftpConn.Client holds at that step.
C18_NewOperationsUseCurrent ==
    [][\A c \in AllCallers :
          (call[c].pc = "idle" /\ call'[c].sess # NoSession) => call'[c].sess = Client]_vars

\* the last successful attempt among the outcomes received, 0 when none
LastSuccess ==
    LET S == { k \in 1..Len(outcomes) : outcomes[k].ok }
    IN  IF S = {} THEN 0 ELSE CHOOSE k \in S : \A j \in S : j <= k

\* C19: the new Session is written before its outcome is published: once a
\* true outcome has been received, ftpConn.Client is the Session of the last
\* attempt whose true outcome was received, unless a later successful attempt
\* has already replaced it.
C19_AssignedBeforePublished ==
    LastSuccess # 0 =>
        IF AssignedUnpublished
        THEN /\ Client = newConn
             /\ clientLog[Len(clientLog) - 1] = outcomes[LastSuccess].conn
        ELSE Client = outcomes[LastSuccess].conn

C19_Witness ==
    /\ Len(outcomes) = 1
    /\ outcomes[1] = [ok |-> TRUE, conn |-> 1]
    /\ Client = 1
    /\ supPc = "idle"

\* a step that changes ftpConn.Client is the supervisor's assignment of the
\* newConn of a successful Connect, and no caller moves in it
OnlySupervisorAssigns ==
    clientLog' # clientLog =>
        /\ supPc = "assign" /\ supOk
        /\ clientLog' = Append(clientLog, newConn)
        /\ call' = call

\* C20: ftpConn.Client is modified only by the supervisor after a successful
\* Connect, no facade operation changes it, and the supervisor has begun no
\* more Connect calls than reconnect signals were sent.
C20_OnlySupervisorWritesClient ==
    /\ [][OnlySupervisorAssigns]_vars
    /\ [](nConnects <= nSignals)

C20_Witness ==
    /\ Len(clientLog) = 2
    /\ call[1].op = "Close" /\ call[1].pc = "done"
    /\ call[2].op = "MoveFile" /\ call[2].pc = "done"

----------------------------------------------------------------------------
(* Host key verification *)

\* the fingerprint string of a key: "<key-type> <base64-of-marshaled-key>"
Fingerprint(k) == k.type \o <<" ">> \o EncodeToString(k.blob)

\* a connect of the supervisor has checked a host key
KeyChecked == handshake.k # NoKey

\* C12: with a non-empty trusted key, the host key callback accepts the
\* observed key if and only if its fingerprint string equals the trusted key;
\* otherwise it fails with an error that carries the expected and the
\* observed string, and the connect attempt fails with it.
C12_TrustedKeyAcceptsIffEqual ==
    (KeyChecked /\ SSHTrustedKey # <<>>) =>
        /\ ~handshake.failed <=> Fingerprint(handshake.k) = SSHTrustedKey
        /\ handshake.failed =>
              /\ handshake.expected = SSHTrustedKey
              /\ handshake.got = Fingerprint(handshake.k)
              /\ supPc \in {"assign", "publish"} => ~supOk

\* the trusted key "ssh-rsa TWE=" accepted the key of type ssh-rsa with the
\* marshaled bytes "Ma", and rejected a key of another type with these bytes
C12_Witness ==
    /\ SSHTrustedKey = KeyTypeRSA \o <<" ", "T", "W", "E", "=">>
    /\ Len(outcomes) = 1 /\ outcomes[1].ok
    /\ handshake.k = [type |-> KeyTypeED, blob |-> <<77, 97>>]
    /\ handshake.failed
    /\ handshake.got = KeyTypeED \o <<" ", "T", "W", "E", "=">>

\* C13: when Connect runs with an empty trusted key, every observed key is
\* accepted and a warning with the fingerprint of the observed key is logged
\* during that connect.
C13_EmptyTrustedKeyWarns ==
    (KeyChecked /\ SSHTrustedKey = <<>>) =>
        /\ ~handshake.failed
        /\ handshake.warning = Fingerprint(handshake.k)

\* the acceptance half alone: with an empty trusted key no key is rejected
EmptyTrustedKeyAccepts ==
    (KeyChecked /\ SSHTrustedKey = <<>>) => ~handshake.failed

====
